---- MODULE Spec2Model ----
(***************************************************************************)
(* p5-fourier: a Fourier series drawn as a chain of epicycles.             *)
(*                                                                         *)
(* Three sketches live in the repository:                                  *)
(*   "full"   src/src/sketch.ts lines 193-435 (slider + waveform select)   *)
(*   "early"  src/src/sketch.ts lines 1-191   (five octaves, square wave)  *)
(*   "index"  src/src/index.ts                (Epicycle class, radio)      *)
(*                                                                         *)
(* Numbers.  Time is a fixed-point number in units of 1/10000: DT = 0.0125 *)
(* is 125 and TWO_PI = 6.2832 is 62832.  An amplitude SCALE*4/(k*PI) is    *)
(* kept as the pair num = SCALE*4, den = k (the factor PI stays symbolic). *)
(* A p5.Vector is kept as the sequence of the terms that were added to     *)
(* (0, 0) to obtain it: the term [amplitude, theta] stands for             *)
(* (amplitude*cos(-theta), amplitude*sin(-theta)); createVector(0, 0) is   *)
(* the empty sequence.                                                     *)
(***************************************************************************)
EXTENDS Integers, Sequences, FiniteSets, TLC

VARIABLES
  variant,     \* which sketch is running: "full", "early" or "index"
  time,        \* let time: Time = 0
  trajectory,  \* let trajectory: Trajectory = []   (newest point first)
  wfPrevious,  \* let wfPrevious: string
  ticks,       \* history: number of draw() calls so far
  last,        \* history: inputs and outcome of the latest draw() call
  log,         \* history: accesses of the latest draw() call, in program order
  fnIn,        \* arguments of a pure function under test
  fnOut        \* its result

vars == <<variant, time, trajectory, wfPrevious, ticks, last, log, fnIn, fnOut>>

-----------------------------------------------------------------------------
(* Program constants *)

SCALE == 69
SCALE_INDEX == 75
DT == 125
DT_INDEX == 250
TWO_PI == 62832
E_X100 == 271
OCTAVES_EARLY == 5
OCTAVES_DEFAULT == 5

(* Bounds of the model *)

\* trajectory.length > 512 (full) and > 256 (early, index), scaled so that an
\* overflow is reached within MaxTicks ticks
CapFull == 3
CapEarly == 2
\* draw() calls in the interactive specification
MaxTicks == 5
\* draw() calls in the free-running specification (two wraps of time)
MaxRunTicks == 1100
\* call-stack depth at which the engine throws RangeError
STACK_LIMIT == 30
\* largest octave count given to epicycles()
MaxOctaves == 24

Octave == 0..(STACK_LIMIT + 1)

NoError == "ok"
RangeError == "RangeError"
TypeError == "TypeError"

-----------------------------------------------------------------------------
(* Math domain *)

Min(a, b) == IF a < b THEN a ELSE b

\* JavaScript's a ^ b on non-negative 32-bit integers
RECURSIVE BitXor(_, _)
BitXor(a, b) ==
  IF a = 0 THEN b
  ELSE IF b = 0 THEN a
  ELSE (((a % 2) + (b % 2)) % 2) + (2 * BitXor(a \div 2, b \div 2))

\* ToInt32 of the non-negative number x100/100
ToInt32(x100) == x100 \div 100

oddI(i) == 2 * i + 1

squareWave ==
  [o \in Octave |->
    LET k == 2 * o + 1
    IN [amplitude |-> [num |-> SCALE * 4, den |-> k],
        angularVelocity |-> k,
        initialOffset |-> 0]]

squareWave_v1 ==
  [o \in Octave |->
    LET k == oddI(o)
    IN [amplitude |-> [num |-> SCALE * 4, den |-> k],
        angularVelocity |-> k,
        initialOffset |-> 0]]

sawWave ==
  [o \in Octave |->
    LET k == o + 1
        sign == IF k % 2 = 0 THEN 1 ELSE -1
    IN [amplitude |-> [num |-> SCALE * 2, den |-> sign * k],
        angularVelocity |-> 2 * k,
        initialOffset |-> 0]]

\* 2.71 raised to the power k, times 1000, truncated at every step (its integer
\* part is exact for k up to 7)
RECURSIVE Pow271x1000(_)
Pow271x1000(k) == IF k = 0 THEN 1000 ELSE (Pow271x1000(k - 1) * E_X100) \div 100

lolWave_pow ==
  [o \in Octave |->
    LET k == 2 * (o + 1)
    IN [amplitude |-> [num |-> SCALE * 4, den |-> k],
        angularVelocity |-> IF k <= 6 THEN BitXor(k, Pow271x1000(k) \div 1000) ELSE k,
        initialOffset |-> 0]]

\* angularVelocity: k ^ (2.71 ^ k), both ^ being bitwise XOR
lolWave ==
  [o \in Octave |->
    LET k == 2 * (o + 1)
    IN [amplitude |-> [num |-> SCALE * 4, den |-> k],
        angularVelocity |-> BitXor(k, BitXor(ToInt32(E_X100), k)),
        initialOffset |-> 0]]

wfs == [square |-> squareWave, sawtooth |-> sawWave, sin |-> lolWave]

waveForm_sawDefault(name) ==
  IF name \in DOMAIN wfs THEN wfs[name] ELSE sawWave

waveForm(name) ==
  IF name \in DOMAIN wfs THEN wfs[name] ELSE squareWave

-----------------------------------------------------------------------------
(* Animation domain *)

incrementTime_nowrap(t, dt) == t + dt

incrementTime(t, dt) == (t + dt) % TWO_PI

createVector == << >>

nextEpicylePos(t, e) ==
  LET theta == t * e.wave.angularVelocity + e.wave.initialOffset
  IN Append(e.pos, [amplitude |-> e.wave.amplitude, theta |-> theta])

\* full sketch: stops when epis.length === n
RECURSIVE epicyclesRecurse(_, _, _, _, _)
epicyclesRecurse(t, n, wf, pos, epis) ==
  IF Len(epis) = n THEN [error |-> NoError, value |-> epis]
  ELSE IF Len(epis) >= STACK_LIMIT THEN [error |-> RangeError, value |-> epis]
  ELSE LET o == Len(epis)
           epi == [pos |-> pos, wave |-> wf[o]]
       IN epicyclesRecurse(t, n, wf, nextEpicylePos(t, epi), Append(epis, epi))

epicycles(t, n, wf) == epicyclesRecurse(t, n, wf, createVector, << >>)

\* early sketch: stops when epis.length - 1 === n
RECURSIVE epicyclesRecurse_v1(_, _, _, _, _)
epicyclesRecurse_v1(t, n, wf, pos, epis) ==
  IF Len(epis) - 1 = n THEN [error |-> NoError, value |-> epis]
  ELSE IF Len(epis) >= STACK_LIMIT THEN [error |-> RangeError, value |-> epis]
  ELSE LET o == Len(epis)
           epi == [pos |-> pos, wave |-> wf[o]]
       IN epicyclesRecurse_v1(t, n, wf, nextEpicylePos(t, epi), Append(epis, epi))

epicycles_v1(t, n, wf) == epicyclesRecurse_v1(t, n, wf, createVector, << >>)

radialLines_stub(t, epis) ==
  [i \in 1..Len(epis) |->
    [p1 |-> epis[i].pos,
     p2 |-> IF i = Len(epis) THEN epis[i].pos ELSE epis[i + 1].pos]]

radialLines(t, epis) ==
  [i \in 1..Len(epis) |->
    [p1 |-> epis[i].pos,
     p2 |-> IF i = Len(epis) THEN nextEpicylePos(t, epis[i]) ELSE epis[i + 1].pos]]

-----------------------------------------------------------------------------
(* Trajectory *)

\* if (wf !== wfPrevious) trajectory = []
clearOnChange_never(traj, wf, previous) == traj

clearOnChange(traj, wf, previous) == IF wf # previous THEN << >> ELSE traj

\* trajectory.unshift(p); if (trajectory.length > cap) trajectory.pop()
push_noPop(traj, p, cap) == <<p>> \o traj

push_shift(traj, p, cap) ==
  LET pushed == <<p>> \o traj
  IN IF Len(pushed) > cap THEN SubSeq(pushed, 2, Len(pushed)) ELSE pushed

push(traj, p, cap) ==
  LET pushed == <<p>> \o traj
  IN IF Len(pushed) > cap THEN SubSeq(pushed, 1, Len(pushed) - 1) ELSE pushed

\* A point of the trajectory: the vector, and (history) the waveform identifier
\* the tick that pushed it had read.
Point(pos, wf) == [pos |-> pos, ink |-> wf]

-----------------------------------------------------------------------------
(* draw(): the accesses it makes, in program order *)

Ev(who, op, obj, at, val) == [who |-> who, op |-> op, obj |-> obj, at |-> at, val |-> val]

\* full sketch, lines 403-435; the step of time moved before the rendering
drawLog_stepFirst(changed, outcome, t, lenPushed) ==
  (IF changed THEN <<Ev("core", "write", "trajectory", "clear", 0)>> ELSE << >>)
  \o <<Ev("core", "read", "time", "epicycles", t)>>
  \o (IF outcome = RangeError THEN << >>
      ELSE <<Ev("core", "read", "time", "radialLines", t),
             Ev("renderer", "read", "epis", "drawEpicycle", 0),
             Ev("renderer", "read", "radials", "drawRadialLine", 0)>>
           \o (IF outcome = TypeError THEN << >>
               ELSE <<Ev("core", "write", "trajectory", "push", lenPushed),
                      Ev("core", "write", "time", "incrementTime", incrementTime(t, DT)),
                      Ev("renderer", "read", "trajectory", "drawTrajectory", lenPushed),
                      Ev("renderer", "read", "lastPos", "drawProjectionLine", 0),
                      Ev("renderer", "read", "trajectory", "drawWaveForm", lenPushed)>>))

\* full sketch, lines 403-435
drawLog(changed, outcome, t, lenPushed) ==
  (IF changed THEN <<Ev("core", "write", "trajectory", "clear", 0)>> ELSE << >>)
  \o <<Ev("core", "read", "time", "epicycles", t)>>
  \o (IF outcome = RangeError THEN << >>
      ELSE <<Ev("core", "read", "time", "radialLines", t),
             Ev("renderer", "read", "epis", "drawEpicycle", 0),
             Ev("renderer", "read", "radials", "drawRadialLine", 0)>>
           \o (IF outcome = TypeError THEN << >>
               ELSE <<Ev("core", "write", "trajectory", "push", lenPushed),
                      Ev("renderer", "read", "trajectory", "drawTrajectory", lenPushed),
                      Ev("renderer", "read", "lastPos", "drawProjectionLine", 0),
                      Ev("renderer", "read", "trajectory", "drawWaveForm", lenPushed),
                      Ev("core", "write", "time", "incrementTime", incrementTime(t, DT))>>))

\* early sketch, lines 169-191: no waveform select, nothing to clear
drawLog_v1(t, lenPushed) ==
  <<Ev("core", "read", "time", "epicycles", t),
    Ev("core", "read", "time", "radialLines", t),
    Ev("renderer", "read", "epis", "drawEpicycle", 0),
    Ev("renderer", "read", "radials", "drawRadialLine", 0),
    Ev("core", "write", "trajectory", "push", lenPushed),
    Ev("renderer", "read", "trajectory", "drawTrajectory", lenPushed),
    Ev("renderer", "read", "lastPos", "drawProjectionLine", 0),
    Ev("renderer", "read", "trajectory", "drawWaveForm", lenPushed),
    Ev("core", "write", "time", "incrementTime", incrementTime(t, DT))>>

-----------------------------------------------------------------------------
(* The full sketch: sketch.ts lines 382-435 *)

History(octaves, wf, changed, outcome) ==
  [octaves |-> octaves, wf |-> wf, timeBefore |-> time, changed |-> changed,
   outcome |-> outcome, lenBefore |-> Len(trajectory),
   sinceChange |-> (IF changed THEN 0 ELSE last.sinceChange) + 1,
   okSinceChange |-> (IF changed THEN 0 ELSE last.okSinceChange)
                     + (IF outcome = NoError THEN 1 ELSE 0)]

draw(octaves, wf) ==
  LET changed == wf # wfPrevious
      kept == clearOnChange(trajectory, wf, wfPrevious)
      built == epicycles(time, octaves, waveForm(wf))
      radials == radialLines(time, built.value)
      outcome == IF built.error # NoError THEN built.error
                 ELSE IF Len(radials) = 0 THEN TypeError  \* radials[-1].p2
                 ELSE NoError
      lastPos == radials[Len(radials)].p2
      pushed == push(kept, Point(lastPos, wf), CapFull)
  IN /\ variant = "full"
     /\ wfPrevious' = wf
     /\ trajectory' = IF outcome = NoError THEN pushed ELSE kept
     /\ time' = IF outcome = NoError THEN incrementTime(time, DT) ELSE time
     /\ log' = drawLog(changed, outcome, time,
                       IF outcome = NoError THEN Len(pushed) ELSE 0)
     /\ last' = History(octaves, wf, changed, outcome)
     /\ ticks' = ticks + 1
     /\ UNCHANGED <<variant, fnIn, fnOut>>

(* The early sketch: sketch.ts lines 163-191 *)

draw_v1 ==
  LET built == epicycles_v1(time, OCTAVES_EARLY, squareWave_v1)
      radials == radialLines(time, built.value)
      lastPos == radials[Len(radials)].p2
      pushed == push(trajectory, Point(lastPos, "square"), CapEarly)
  IN /\ variant = "early"
     /\ trajectory' = pushed
     /\ time' = incrementTime(time, DT)
     /\ log' = drawLog_v1(time, Len(pushed))
     /\ last' = History(OCTAVES_EARLY, "square", FALSE, NoError)
     /\ ticks' = ticks + 1
     /\ UNCHANGED <<variant, wfPrevious, fnIn, fnOut>>

-----------------------------------------------------------------------------
(* The first sketch: index.ts *)

\* new Epicycle(position, radius, k): radius and k are never 0 here, phase is
\* not given
Epicycle(position, radius, k) ==
  [pos |-> position,
   r |-> [num |-> radius.num * SCALE_INDEX, den |-> radius.den],
   k |-> k,
   phi |-> 0]

\* reads the global time
getRadialPhasePoint(e, t) ==
  LET theta == e.k * t + e.phi
  IN Append(e.pos, [amplitude |-> e.r, theta |-> theta])

squareWaveKByIndex == [i \in Octave |-> 2 * i + 1]

triangleWaveKByIndex == [i \in Octave |-> 2 * (i + 1)]

\* the loop of buildEpicycles from iteration n on; radius is 4 / (k * PI)
RECURSIVE buildLoop(_, _, _, _, _, _, _, _)
buildLoop(octaves, fn, n, actual_pos, epis, traj, t, ink) ==
  IF ~(n < octaves) THEN [epicycles |-> epis, trajectory |-> traj]
  ELSE LET k == fn[n]
           radius == [num |-> 4, den |-> k]
           epi == Epicycle(actual_pos, radius, k)
           next_pos == getRadialPhasePoint(epi, t)
           traj2 == IF n = octaves - 1
                    THEN push(traj, Point(next_pos, ink), CapEarly)
                    ELSE traj
       IN buildLoop(octaves, fn, n + 1, next_pos, Append(epis, epi), traj2, t, ink)

buildEpicycles(octaves, fn, traj, t, ink) ==
  buildLoop(octaves, fn, 0, createVector, << >>, traj, t, ink)

\* time += DT; if (time > TWO_PI) time -= TWO_PI
stepTime_index(t) ==
  LET t1 == t + DT_INDEX
  IN IF t1 > TWO_PI THEN t1 - TWO_PI ELSE t1

drawLog_index(octaves, outcome, t, lenPushed) ==
  (IF octaves >= 1
   THEN <<Ev("core", "read", "time", "buildEpicycles", t),
          Ev("core", "write", "trajectory", "push", lenPushed),
          Ev("renderer", "read", "time", "show", t)>>
   ELSE << >>)
  \o <<Ev("renderer", "read", "trajectory", "vertex", lenPushed)>>
  \o (IF outcome = TypeError THEN << >>
      ELSE <<Ev("renderer", "read", "trajectory", "projection", lenPushed),
             Ev("renderer", "read", "trajectory", "wave", lenPushed),
             Ev("core", "write", "time", "time += DT", t + DT_INDEX)>>
           \o (IF t + DT_INDEX > TWO_PI
               THEN <<Ev("core", "write", "time", "time -= TWO_PI", t + DT_INDEX - TWO_PI)>>
               ELSE << >>))

draw_index(octaves, radio) ==
  LET fn == IF radio = "square" THEN squareWaveKByIndex ELSE triangleWaveKByIndex
      built == buildEpicycles(octaves, fn, trajectory, time, radio)
      outcome == IF Len(built.trajectory) = 0 THEN TypeError  \* trajectory[0].x
                 ELSE NoError
  IN /\ variant = "index"
     /\ trajectory' = built.trajectory
     /\ time' = IF outcome = NoError THEN stepTime_index(time) ELSE time
     /\ log' = drawLog_index(octaves, outcome, time, Len(built.trajectory))
     /\ last' = History(octaves, radio, FALSE, outcome)
     /\ ticks' = ticks + 1
     /\ UNCHANGED <<variant, wfPrevious, fnIn, fnOut>>

-----------------------------------------------------------------------------
(* Specifications *)

NoCall == [fn |-> "none"]

NoHistory ==
  [octaves |-> 0, wf |-> "square", timeBefore |-> 0, changed |-> FALSE,
   outcome |-> "none", lenBefore |-> 0, sinceChange |-> 0, okSinceChange |-> 0]

\* what the controls can be made to return in one tick
OctaveInputs == {-1, 0, 1, 2}
WfInputs == {"square", "sawtooth", "sin", "unknown"}
RadioInputs == {"square", "triangle"}

\* setup(): wfSelect.selected('square'); wfPrevious = 'square'
Init ==
  /\ variant \in {"full", "early", "index"}
  /\ time = 0
  /\ trajectory = << >>
  /\ wfPrevious = "square"
  /\ ticks = 0
  /\ last = NoHistory
  /\ log = << >>
  /\ fnIn = NoCall
  /\ fnOut = NoCall

\* one animation frame, the controls returning any of their values
Tick == ticks < MaxTicks /\ \E octaves \in OctaveInputs, wf \in WfInputs : draw(octaves, wf)

TickEarly == ticks < MaxTicks /\ draw_v1

TickIndex ==
  ticks < MaxTicks /\ \E octaves \in OctaveInputs, radio \in RadioInputs : draw_index(octaves, radio)

Next == Tick \/ TickEarly \/ TickIndex

Spec == Init /\ [][Next]_vars

\* the sketches left running with the controls untouched
RunTick == ticks < MaxRunTicks /\ draw(OCTAVES_DEFAULT, "square")

RunTickEarly == ticks < MaxRunTicks /\ draw_v1

RunTickIndex == ticks < MaxRunTicks /\ draw_index(OCTAVES_DEFAULT, "square")

NextRun == RunTick \/ RunTickEarly \/ RunTickIndex

SpecRun == Init /\ [][NextRun]_vars

\* the pure functions of the core, applied to arguments drawn from bounded sets
FnTimes == {0, DT, 31416}
FnNames == {"square", "sawtooth", "sin", "unknown", ""}
OctaveCounts == (0 - 2)..MaxOctaves

InitFn ==
  /\ variant = "full"
  /\ time = 0
  /\ trajectory = << >>
  /\ wfPrevious = "square"
  /\ ticks = 0
  /\ last = NoHistory
  /\ log = << >>
  /\ fnIn \in [sketch : {"full", "early"}, t : FnTimes, n : OctaveCounts, name : FnNames]
  /\ fnOut = NoCall

Build(sketch, t, n, wf) ==
  IF sketch = "early" THEN epicycles_v1(t, n, wf) ELSE epicycles(t, n, wf)

Return(out) ==
  /\ fnOut = NoCall
  /\ fnOut' = out
  /\ UNCHANGED <<variant, time, trajectory, wfPrevious, ticks, last, log, fnIn>>

ApplyWaveForm == Return([fn |-> "waveForm", wf |-> waveForm(fnIn.name)])

ApplyEpicycles ==
  Return([fn |-> "epicycles",
          built |-> Build(fnIn.sketch, fnIn.t, fnIn.n, waveForm(fnIn.name))])

ApplyRadialLines ==
  LET built == Build(fnIn.sketch, fnIn.t, fnIn.n, waveForm(fnIn.name))
  IN /\ built.error = NoError
     /\ Return([fn |-> "radialLines", epis |-> built.value,
                radials |-> radialLines(fnIn.t, built.value)])

ApplyLolWave ==
  /\ fnIn.n >= 0
  /\ Return([fn |-> "lolWave", o |-> fnIn.n, wave |-> lolWave[fnIn.n]])

NextFn == ApplyWaveForm \/ ApplyEpicycles \/ ApplyRadialLines \/ ApplyLolWave

SpecFn == InitFn /\ [][NextFn]_vars

-----------------------------------------------------------------------------
(* Properties *)

Capacity == IF variant = "full" THEN CapFull ELSE CapEarly

Front(s) == SubSeq(s, 1, Len(s) - 1)

\* the pencil tip in closed form: the sum of the first n harmonics at time t
PencilTip(t, n, wf) ==
  [i \in 1..n |->
    [amplitude |-> wf[i - 1].amplitude,
     theta |-> t * wf[i - 1].angularVelocity + wf[i - 1].initialOffset]]

Indices(P(_)) == {i \in 1..Len(log) : P(log[i])}

IsWrite(obj, e) == e.op = "write" /\ e.obj = obj
IsRender(obj, e) == e.who = "renderer" /\ e.op = "read" /\ e.obj = obj

\* C1: in every sketch a tick leaves at most Capacity points in the
\* trajectory; a tick that changes the trajectory either empties it (waveform
\* changed, tick aborted), restarts it with the one new point (waveform
\* changed), or puts the new point in front of the old points, in their old
\* order, dropping exactly the last (oldest) one when the buffer was full.
C1_BoundedFifo ==
  [][ /\ Len(trajectory') <= Capacity
      /\ trajectory' # trajectory =>
           \/ trajectory' = << >>
           \/ /\ variant = "full"
              /\ wfPrevious' # wfPrevious
              /\ Len(trajectory') = 1
           \/ /\ Len(trajectory') = Min(Capacity, Len(trajectory) + 1)
              /\ Tail(trajectory') = IF Len(trajectory) = Capacity
                                     THEN Front(trajectory)
                                     ELSE trajectory ]_vars

\* a push has overflowed the full sketch's buffer
C1_Witness ==
  /\ variant = "full"
  /\ last.outcome = NoError
  /\ last.lenBefore = CapFull
  /\ ~last.changed
  /\ Len(trajectory) = CapFull

\* C2: in the full sketch, a tick that reads a waveform identifier other than
\* the previous tick's leaves nothing of the old trajectory (at most its own
\* point), and every point of the trajectory was pushed by a tick that read
\* the current identifier and starts with that waveform's first harmonic.
C2_NoMixedTraces ==
  (variant = "full" /\ ticks > 0) =>
    /\ wfPrevious = last.wf
    /\ last.changed => Len(trajectory) = (IF last.outcome = NoError THEN 1 ELSE 0)
    /\ \A i \in 1..Len(trajectory) :
         /\ trajectory[i].ink = last.wf
         /\ trajectory[i].pos[1].amplitude = waveForm(last.wf)[0].amplitude

\* the waveform changed while the trajectory held points
C2_Witness ==
  /\ variant = "full"
  /\ last.changed
  /\ last.lenBefore >= 2
  /\ last.outcome = NoError
  /\ Len(trajectory) = 1

\* C3: for n in 0..24 epicycles(t, n, wf) returns, without error, exactly n
\* epicycles, the i-th carrying wf(i) (in both sketches of sketch.ts).
C3_ExactlyN ==
  (fnOut.fn = "epicycles" /\ fnIn.n \in 0..24) =>
    /\ fnOut.built.error = NoError
    /\ Len(fnOut.built.value) = fnIn.n
    /\ \A i \in 1..Len(fnOut.built.value) :
         fnOut.built.value[i].wave = waveForm(fnIn.name)[i - 1]

\* C4: a tick of the full sketch whose octave count is zero or negative
\* completes without an error.
C4_NonPositiveOctavesComplete ==
  (variant = "full" /\ ticks > 0 /\ last.octaves <= 0) => last.outcome = NoError

C7_UnknownIsSquare ==
  fnOut.fn = "waveForm" =>
    /\ fnOut.wf = (CASE fnIn.name = "square" -> squareWave
                     [] fnIn.name = "sawtooth" -> sawWave
                     [] fnIn.name = "sin" -> lolWave
                     [] OTHER -> squareWave)
    /\ fnIn.name \notin {"square", "sawtooth", "sin"} => fnOut.wf = waveForm("square")
    /\ squareWave[0] # sawWave[0] /\ squareWave[0] # lolWave[0] /\ sawWave[0] # lolWave[0]

\* waveForm was given a name that is not registered
C7_Witness == fnOut.fn = "waveForm" /\ fnIn.name = "unknown"

C9_SegmentsChain ==
  (fnOut.fn = "radialLines" /\ Len(fnOut.epis) >= 1) =>
    LET n == Len(fnOut.epis)
        epis == fnOut.epis
        radials == fnOut.radials
    IN /\ Len(radials) = n
       /\ radials[1].p1 = << >>
       /\ \A i \in 1..n : radials[i].p1 = epis[i].pos
       /\ \A i \in 1..(n - 1) :
            radials[i].p2 = epis[i + 1].pos /\ radials[i].p2 = radials[i + 1].p1
       /\ radials[n].p2 = nextEpicylePos(fnIn.t, epis[n])
       /\ radials[n].p2 = PencilTip(fnIn.t, n, waveForm(fnIn.name))

\* segments were derived from a chain of several epicycles at a time after 0
C9_Witness ==
  /\ fnOut.fn = "radialLines"
  /\ Len(fnOut.epis) >= 3
  /\ fnIn.t > 0
  /\ fnIn.name = "sawtooth"

\* C10: after a completed tick of the full sketch (octave count >= 1) the
\* trajectory holds min(CapFull, j) points, j being the number of completed
\* ticks since, and including, the latest tick that read a changed waveform
\* identifier (or since the start); so it holds exactly one point right after
\* a change, the renderer never reads it empty, and its first point is the
\* pencil tip for the time the tick started with.
C10_LengthAndFront ==
  (variant = "full" /\ ticks > 0 /\ last.outcome = NoError) =>
    /\ last.octaves >= 1
    /\ Len(trajectory) = Min(CapFull, last.okSinceChange)
    /\ last.okSinceChange = last.sinceChange =>
         Len(trajectory) = Min(CapFull, last.sinceChange)
    /\ Len(trajectory) >= 1
    /\ last.changed => Len(trajectory) = 1
    /\ \A r \in Indices(LAMBDA e : IsRender("trajectory", e)) : log[r].val >= 1
    /\ Head(trajectory).pos = PencilTip(last.timeBefore, last.octaves, waveForm(last.wf))

\* the buffer is full, some ticks after a change of waveform
C10_Witness ==
  /\ variant = "full"
  /\ last.outcome = NoError
  /\ last.sinceChange < ticks
  /\ last.sinceChange = last.okSinceChange
  /\ last.okSinceChange > CapFull
  /\ Len(trajectory) = CapFull

====
